---- MODULE Spec2Model ----
(***************************************************************************)
(* Model of the single-retry SQL-repair workflow of src/agent.py           *)
(* (ConversationManager) and of the query executor and schema describer    *)
(* of src/database.py (DatabaseManager).                                   *)
(*                                                                         *)
(* Text is a sequence of strings.  LLM responses are modelled character    *)
(* by character (one-character strings), so that upper(), the substring    *)
(* test, replace() and strip() are computed as Python computes them; the   *)
(* fixed parts of prompts and messages are single multi-character strings. *)
(***************************************************************************)
EXTENDS Integers, Sequences, FiniteSets, TLC

(* ------------------------------ bounds --------------------------------- *)
MaxTurns == 2
MaxRetries == 2
MaxCols == 1
MaxRows == 2

\* the backquote character (the string syntax of TLA+ has no backquote)
BQ == "<backquote>"

(* ------------------------------ inputs --------------------------------- *)
Questions == { <<"top customers">>, <<"filter those">> }

\* a fenced block: three backquotes, sql, newline, SELECT 1, three backquotes
RespFenced == <<BQ,BQ,BQ,"s","q","l","\n","S","E","L","E","C","T"," ","1",BQ,BQ,BQ>>
\* select 1   (lower case, no fences)
RespLower == <<"s","e","l","e","c","t"," ","1">>
\* " no "     (an explanation, padded with white space)
RespExplain == <<" ","n","o"," ">>
\* "I Select" (prose that mentions the word)
RespProse == <<"I"," ","S","e","l","e","c","t">>

Responses == { RespFenced, RespLower, RespExplain, RespProse }

\* str(e) of the exception an LLM call raises
Errors == { <<"rate limit">> }

\* outcome of client.messages.create(...) followed by response.content[0].text
LLMOutcomes ==
    [ok : {TRUE}, text : Responses] \cup [ok : {FALSE}, text : Errors]

\* what the warehouse does during one execute_query call: the first call of
\* the try block that raises (the block stops there), the result descriptor
\* and the rows of a statement that ran, and whether each close succeeds
TrySteps == {"connect", "cursor", "execute", "fetchall"}

WarehouseBehaviours ==
    { wb \in [fail : TrySteps \cup {"none"},
              cursor_close_ok : BOOLEAN, conn_close_ok : BOOLEAN,
              ncols : 0..MaxCols, nrows : 0..MaxRows] :
        wb.fail # "none" => (wb.ncols = 0 /\ wb.nrows = 0) }

(* --------------------------- optional values --------------------------- *)
None == <<>>
Some(v) == <<v>>

(* ------------------------------ strings -------------------------------- *)
UpperOf ==
    [c \in {"a","b","c","d","e","f","g","h","i","j","k","l","m","n","o","p",
            "q","r","s","t","u","v","w","x","y","z"} |->
       CASE c = "a" -> "A" [] c = "b" -> "B" [] c = "c" -> "C" [] c = "d" -> "D"
         [] c = "e" -> "E" [] c = "f" -> "F" [] c = "g" -> "G" [] c = "h" -> "H"
         [] c = "i" -> "I" [] c = "j" -> "J" [] c = "k" -> "K" [] c = "l" -> "L"
         [] c = "m" -> "M" [] c = "n" -> "N" [] c = "o" -> "O" [] c = "p" -> "P"
         [] c = "q" -> "Q" [] c = "r" -> "R" [] c = "s" -> "S" [] c = "t" -> "T"
         [] c = "u" -> "U" [] c = "v" -> "V" [] c = "w" -> "W" [] c = "x" -> "X"
         [] c = "y" -> "Y" [] c = "z" -> "Z"]

\* str.upper()
Upper(s) == [i \in 1..Len(s) |-> IF s[i] \in DOMAIN UpperOf THEN UpperOf[s[i]] ELSE s[i]]

\* pat in s
Contains(s, pat) ==
    \E i \in 1..(Len(s) - Len(pat) + 1) : SubSeq(s, i, i + Len(pat) - 1) = pat

\* s.replace(pat, "")
RECURSIVE Remove(_, _)
Remove(s, pat) ==
    IF Len(s) < Len(pat) THEN s
    ELSE IF SubSeq(s, 1, Len(pat)) = pat
         THEN Remove(SubSeq(s, Len(pat) + 1, Len(s)), pat)
         ELSE <<s[1]>> \o Remove(Tail(s), pat)

WhiteSpace == {" ", "\n", "\t", "\r"}

RECURSIVE LStrip(_)
LStrip(s) == IF s # <<>> /\ s[1] \in WhiteSpace THEN LStrip(Tail(s)) ELSE s

RECURSIVE RStrip(_)
RStrip(s) ==
    IF s # <<>> /\ s[Len(s)] \in WhiteSpace THEN RStrip(SubSeq(s, 1, Len(s) - 1)) ELSE s

\* str.strip()
Strip(s) == RStrip(LStrip(s))

DigitOf == <<"0","1","2","3","4","5","6","7","8","9">>

\* str(n) for n >= 0, as the f-strings format len(df)
RECURSIVE Decimal(_)
Decimal(n) ==
    IF n < 10 THEN <<DigitOf[n + 1]>> ELSE Decimal(n \div 10) \o <<DigitOf[(n % 10) + 1]>>

KwSelect == <<"S","E","L","E","C","T">>
FenceSql == <<BQ,BQ,BQ,"s","q","l">>
Fence == <<BQ,BQ,BQ>>

(* ---------------------- database.py: execute_query --------------------- *)
\* a DataFrame, as far as the workflow looks at it: number of columns and rows
DataFrame(cols, rows) == [cols |-> cols, rows |-> rows]

\* the body of the try block: either a DataFrame or an exception
TryBody(wb) ==
    IF wb.fail # "none"
    THEN [exc |-> TRUE, df |-> DataFrame(0, 0)]
    ELSE IF wb.nrows > 0
         THEN IF wb.ncols = 0
              \* pd.DataFrame(rows, columns=[]) with rows present raises ValueError
              THEN [exc |-> TRUE, df |-> DataFrame(0, 0)]
              ELSE [exc |-> FALSE, df |-> DataFrame(wb.ncols, wb.nrows)]
         ELSE [exc |-> FALSE, df |-> DataFrame(wb.ncols, 0)]

\* "connection" is not None when the finally block runs
ConnectionOpened(wb) == wb.fail # "connect"

\* "cursor" is not None when the finally block runs
CursorOpened(wb) == wb.fail \notin {"connect", "cursor"}

\* finally: cursor.close() raises
CursorCloseRaises(wb) == CursorOpened(wb) /\ ~wb.cursor_close_ok

\* finally: connection.close() is reached only when cursor.close() did not raise
ConnectionCloseCalled(wb) == ConnectionOpened(wb) /\ ~CursorCloseRaises(wb)

\* finally: connection.close() raises
ConnectionCloseRaises(wb) == ConnectionCloseCalled(wb) /\ ~wb.conn_close_ok

\* the finally block raises when a close it performs raises
FinallyRaises(wb) == CursorCloseRaises(wb) \/ ConnectionCloseRaises(wb)

\* execute_query: what the caller gets, a DataFrame or a raised exception,
\* and what the call did to the warehouse: whether the try block raised, the
\* connections it opened, and what it left open
execute_query(wb) ==
    [raised      |-> FinallyRaises(wb),
     df          |-> IF TryBody(wb).exc THEN DataFrame(0, 0) ELSE TryBody(wb).df,
     failed      |-> TryBody(wb).exc,
     opened      |-> IF ConnectionOpened(wb) THEN 1 ELSE 0,
     conn_open   |-> ConnectionOpened(wb)
                       /\ ~(ConnectionCloseCalled(wb) /\ wb.conn_close_ok),
     cursor_open |-> CursorOpened(wb) /\ ~wb.cursor_close_ok]

\* the record of one execute_query call
ExecEntry(sql, e) ==
    [sql |-> sql, raised |-> e.raised, df |-> e.df, failed |-> e.failed,
     opened |-> e.opened, conn_open |-> e.conn_open, cursor_open |-> e.cursor_open]

(* ------------------- database.py: get_database_context ----------------- *)
Tables == <<"customers", "products", "sales">>

\* config.get_full_table_name with the default catalog and schema
get_full_table_name(table) == <<"workspace", ".", "claude", ".", table>>

\* what DESCRIBE gives for each table: the rows of schema_df, none when the
\* query failed
SchemaAll ==
    [t \in {"customers", "products", "sales"} |->
        << [col_name |-> "id", data_type |-> "int"] >>]
SchemaWithoutSales ==
    [SchemaAll EXCEPT !["sales"] = <<>>]
SchemaWider ==
    [SchemaAll EXCEPT !["customers"] = << [col_name |-> "id", data_type |-> "int"],
                                           [col_name |-> "name", data_type |-> "string"] >>]
SchemaViews == {SchemaAll, SchemaWithoutSales, SchemaWider}

RECURSIVE ColumnLines(_)
ColumnLines(rows) ==
    IF rows = <<>> THEN <<>>
    ELSE << <<"  - ", rows[1].col_name, " (", rows[1].data_type, ")">> >>
         \o ColumnLines(Tail(rows))

RECURSIVE ContextParts(_, _)
ContextParts(view, tables) ==
    IF tables = <<>> THEN <<>>
    ELSE (IF view[tables[1]] # <<>>
          THEN << <<"\n">> \o get_full_table_name(tables[1]) \o <<":">> >>
               \o ColumnLines(view[tables[1]])
          ELSE <<>>)
         \o ContextParts(view, Tail(tables))

\* "\n".join(parts)
RECURSIVE Join(_)
Join(parts) ==
    IF parts = <<>> THEN <<>>
    ELSE IF Len(parts) = 1 THEN parts[1]
    ELSE parts[1] \o <<"\n">> \o Join(Tail(parts))

\* get_database_context: one block per table whose schema is not empty
get_database_context(view) ==
    Join(<< <<"Available database tables:\n">> >> \o ContextParts(view, Tables))

(* ------------------------ agent.py: pure helpers ----------------------- *)
\* datetime.now().strftime('%Y-%m-%d')
Today == <<"2026-11-01">>

init_database_context_recomputed(ctx, view) == Some(get_database_context(view))

\* __init__: the schema description is built only when the session has none
init_database_context(ctx, view) ==
    IF ctx = None THEN Some(get_database_context(view)) ELSE ctx

\* __init__: the number of get_database_context calls so far
init_context_builds(ctx, builds) == IF ctx = None THEN builds + 1 ELSE builds

\* build_system_prompt: the f-string; only the schema description and the
\* date vary
build_system_prompt(ctx, date) ==
    <<"You are a data analytics assistant with access to a retail analytics database.\n\n">>
    \o ctx
    \o <<"\n\nYour task is to help users query and analyze this data by generating SQL queries.\n\n",
         "IMPORTANT RULES:\n",
         "1. Generate ONLY valid SQL queries for Databricks SQL\n",
         "2. Use fully qualified table names: workspace.claude.tablename\n",
         "3. When results are empty (0 rows), explain what might be missing rather than suggesting to check the database\n",
         "4. For follow-up questions like \"filter those\" or \"show their average\", use context from previous queries\n",
         "5. Always use proper SQL syntax with appropriate JOINs when querying multiple tables\n",
         "6. Return ONLY the SQL query, no explanations or markdown formatting\n",
         "7. If the question cannot be answered with the available data, explain why\n\n",
         "Current date: ">>
    \o date
    \o <<"\n">>

Message(role, content) == [role |-> role, content |-> content]

add_to_history_stripped(h, role, content) == Append(h, Message(role, Strip(content)))

add_to_history_as_user(h, role, content) == Append(h, Message("user", content))

\* add_to_history: the conversation history with one message appended
add_to_history(h, role, content) == Append(h, Message(role, content))

\* get_conversation_history: the list held in the session state
get_conversation_history(h) == h

clear_history_drops_first(h) == IF h = <<>> THEN h ELSE Tail(h)

\* clear_history: the history is replaced by an empty list
clear_history(h) == <<>>

\* generate_sql: the request's messages, a copy of the history plus the question
DraftMessages(h, question) == Append(h, Message("user", question))

history_after_draft_aliased(h, question, o) ==
    IF o.ok
    THEN add_to_history(add_to_history(h, "user", question), "assistant", o.text)
    ELSE add_to_history(h, "user", question)

\* generate_sql: the history after the call; the two appends sit behind the
\* LLM call in the try block, and the request was built on a copy
history_after_draft(h, question, o) ==
    IF o.ok
    THEN add_to_history(add_to_history(h, "user", question), "assistant", o.text)
    ELSE h

\* "SELECT" in ai_response.upper()
ContainsSelect(text) == Contains(Upper(text), KwSelect)

\* ai_response.replace(fence + "sql", "").replace(fence, "").strip()
ExtractSql(text) == Strip(Remove(Remove(text, FenceSql), Fence))

generate_sql_result_no_text(o) ==
    IF o.ok
    THEN IF ContainsSelect(o.text)
         THEN [sql |-> Some(ExtractSql(o.text)), response |-> o.text]
         ELSE [sql |-> None, response |-> o.text]
    ELSE [sql |-> None, response |-> <<"Error generating SQL">>]

\* the pair (sql_query, ai_response) that generate_sql returns
generate_sql_result(o) ==
    IF o.ok
    THEN IF ContainsSelect(o.text)
         THEN [sql |-> Some(ExtractSql(o.text)), response |-> o.text]
         ELSE [sql |-> None, response |-> o.text]
    ELSE [sql |-> None, response |-> <<"Error generating SQL: ">> \o o.text]

\* fix_failed_sql: the f-string fix_prompt
fix_prompt(failed_sql, original_question) ==
    <<"The following SQL query failed to execute:\n", BQ, BQ, BQ, "sql\n">>
    \o failed_sql
    \o <<"\n", BQ, BQ, BQ, "\n\nOriginal question: \"">>
    \o original_question
    \o <<"\"\n\nCommon issues in Databricks SQL:\n",
         "- DATE_TRUNC() uses different syntax than PostgreSQL\n",
         "- Some aggregate functions have different parameter orders\n",
         "- String functions may have different names\n\n",
         "Please provide a CORRECTED SQL query that will work in Databricks SQL.\n",
         "Return ONLY the corrected SQL query, no explanations.">>

FixMessages_with_history(h, failed_sql, original_question) ==
    Append(h, Message("user", fix_prompt(failed_sql, original_question)))

\* fix_failed_sql: the request's messages; the history h is not part of them
FixMessages(h, failed_sql, original_question) ==
    << Message("user", fix_prompt(failed_sql, original_question)) >>

\* the pair (fixed_sql, ai_response) that fix_failed_sql returns
fix_failed_sql_result(o) ==
    IF o.ok
    THEN IF ContainsSelect(o.text)
         THEN [sql |-> Some(ExtractSql(o.text)), response |-> o.text]
         ELSE [sql |-> None, response |-> o.text]
    ELSE [sql |-> None, response |-> o.text]

\* Python truth value of an optional string: neither None nor ""
Truthy(opt) == opt # None /\ opt[1] # <<>>

\* df is not None and len(df.columns) > 0
HasColumns(df) == df.cols > 0

\* df.empty
Empty(df) == df.cols = 0 \/ df.rows = 0

Outcome(success, sql, data, message, retry_attempted) ==
    [success |-> success, sql |-> sql, data |-> data, message |-> message,
     retry_attempted |-> retry_attempted]

NoSqlOutcome_stripped(response) == Outcome(FALSE, None, None, Strip(response), FALSE)

\* ask_question, "If no SQL generated, return the explanation"
NoSqlOutcome(response) == Outcome(FALSE, None, None, response, FALSE)

FirstSuccessOutcome_counts_columns(sql, d) ==
    IF ~Empty(d)
    THEN Outcome(TRUE, sql, Some(d),
                 <<"Found ">> \o Decimal(d.cols) \o <<" results">>, FALSE)
    ELSE Outcome(TRUE, sql, Some(d),
                 <<"Query executed successfully but returned no results">>, FALSE)

\* ask_question, "First attempt succeeded"
FirstSuccessOutcome(sql, d) ==
    IF ~Empty(d)
    THEN Outcome(TRUE, sql, Some(d),
                 <<"Found ">> \o Decimal(d.rows) \o <<" results">>, FALSE)
    ELSE Outcome(TRUE, sql, Some(d),
                 <<"Query executed successfully but returned no results">>, FALSE)

\* ask_question, the fixed query returned columns
FixedSuccessOutcome(sql, d) ==
    IF ~Empty(d)
    THEN Outcome(TRUE, sql, Some(d),
                 <<"Found ">> \o Decimal(d.rows) \o <<" results (after automatic fix)">>,
                 TRUE)
    ELSE Outcome(TRUE, sql, Some(d),
                 <<"Fixed query executed but returned no results">>, TRUE)

\* ask_question, "All attempts failed"
AllFailedOutcome(sql, retries) ==
    Outcome(FALSE, sql, None,
            <<"Query failed and could not be automatically fixed">>, retries > 0)

AfterFailure_budget_above_one(retries, repairs) ==
    IF repairs = 0 /\ retries > 1 THEN "repairing" ELSE "returned"

AfterFailure_loop(retries, repairs) ==
    IF repairs < retries THEN "repairing" ELSE "returned"

AfterFailure_always_repair(retries, repairs) ==
    IF repairs = 0 /\ retries >= 0 THEN "repairing" ELSE "returned"

\* ask_question: where control goes after a failure (a zero-column result, or
\* a repair that produced no SQL), given the repair calls made so far.  The
\* repair is an if, not a loop: it is entered from the first failure only.
AfterFailure(retries, repairs) ==
    IF repairs = 0 /\ retries > 0 THEN "repairing" ELSE "returned"

(* ------------------------------- state --------------------------------- *)
VARIABLES
    history,        \* st.session_state.conversation_history
    pc,             \* position of the ask_question call in flight
    user_question,  \* ask_question argument
    max_retries,    \* ask_question argument
    sql_query,      \* ask_question local
    ai_response,    \* ask_question local
    df,             \* ask_question local (None until assigned)
    fixed_sql,      \* ask_question local
    fixed_response, \* ask_question local
    df_fixed,       \* ask_question local (None until assigned)
    result,         \* the returned dict (None until the call returns)
    llm_log,        \* the client.messages.create calls of the call in flight
    exec_log,       \* the db.execute_query calls of the call in flight
    turns,          \* number of calls made on the manager in the session
    database_context, \* st.session_state.database_context
    context_builds, \* number of db.get_database_context() calls in the session
    last_op         \* the last call the session made on the manager

vars == <<history, pc, user_question, max_retries, sql_query, ai_response, df,
          fixed_sql, fixed_response, df_fixed, result, llm_log, exec_log, turns,
          database_context, context_builds, last_op>>

session == <<database_context, context_builds>>

locals == <<sql_query, ai_response, df, fixed_sql, fixed_response, df_fixed>>

Repairs(log) == Cardinality({i \in DOMAIN log : log[i].kind = "repair"})

Init ==
    /\ history = <<>>
    /\ pc = "idle"
    /\ user_question = <<>>
    /\ max_retries = 0
    /\ sql_query = None
    /\ ai_response = <<>>
    /\ df = None
    /\ fixed_sql = None
    /\ fixed_response = <<>>
    /\ df_fixed = None
    /\ result = None
    /\ llm_log = <<>>
    /\ exec_log = <<>>
    /\ turns = 0
    /\ database_context = init_database_context(None, SchemaAll)
    /\ context_builds = init_context_builds(None, 0)
    /\ last_op = "__init__"

(* ------------------------------ actions -------------------------------- *)
\* the caller invokes agent.ask_question(user_question, max_retries)
AskQuestion(q, r) ==
    /\ pc = "idle"
    /\ turns < MaxTurns
    /\ pc' = "drafting"
    /\ user_question' = q
    /\ max_retries' = r
    /\ turns' = turns + 1
    /\ last_op' = "ask_question"
    /\ UNCHANGED <<history, locals, result, llm_log, exec_log, session>>

\* ask_question: generate_sql(user_question) and the test of its result
GenerateSql(o) ==
    /\ pc = "drafting"
    /\ LET g == generate_sql_result(o)
       IN  /\ llm_log' = Append(llm_log,
                  [kind |-> "draft",
                   system |-> build_system_prompt(database_context[1], Today),
                   messages |-> DraftMessages(get_conversation_history(history),
                                              user_question),
                   ok |-> o.ok, text |-> o.text])
           /\ history' = history_after_draft(history, user_question, o)
           /\ sql_query' = g.sql
           /\ ai_response' = g.response
           /\ IF g.sql = None
              THEN /\ result' = Some(NoSqlOutcome(g.response))
                   /\ pc' = "returned"
              ELSE /\ result' = result
                   /\ pc' = "executing"
    /\ UNCHANGED <<user_question, max_retries, df, fixed_sql, fixed_response,
                   df_fixed, exec_log, turns, session, last_op>>

\* ask_question: df = db.execute_query(sql_query) and the tests of df
ExecuteQuery(wb) ==
    /\ pc = "executing"
    /\ LET e == execute_query(wb)
       IN  /\ exec_log' = Append(exec_log,
                  ExecEntry(sql_query[1], e))
           /\ IF e.raised
              THEN /\ pc' = "raised"
                   /\ UNCHANGED <<df, result>>
              ELSE /\ df' = Some(e.df)
                   /\ IF HasColumns(e.df)
                      THEN /\ result' = Some(FirstSuccessOutcome(sql_query, e.df))
                           /\ pc' = "returned"
                      ELSE /\ pc' = AfterFailure(max_retries, Repairs(llm_log))
                           /\ result' = IF pc' = "returned"
                                        THEN Some(AllFailedOutcome(sql_query, max_retries))
                                        ELSE result
    /\ UNCHANGED <<history, user_question, max_retries, sql_query, ai_response,
                   fixed_sql, fixed_response, df_fixed, llm_log, turns, session,
                   last_op>>

\* ask_question: fix_failed_sql(sql_query, user_question) and "if fixed_sql"
FixFailedSql(o) ==
    /\ pc = "repairing"
    /\ LET f == fix_failed_sql_result(o)
           log == Append(llm_log,
                  [kind |-> "repair",
                   system |-> build_system_prompt(database_context[1], Today),
                   messages |-> FixMessages(history, sql_query[1], user_question),
                   ok |-> o.ok, text |-> o.text])
       IN  /\ llm_log' = log
           /\ fixed_sql' = f.sql
           /\ fixed_response' = f.response
           /\ IF Truthy(f.sql)
              THEN /\ pc' = "reexecuting"
                   /\ result' = result
              ELSE /\ pc' = AfterFailure(max_retries, Repairs(log))
                   /\ result' = IF pc' = "returned"
                                THEN Some(AllFailedOutcome(sql_query, max_retries))
                                ELSE result
    /\ UNCHANGED <<history, user_question, max_retries, sql_query, ai_response,
                   df, df_fixed, exec_log, turns, session, last_op>>

\* ask_question: df_fixed = db.execute_query(fixed_sql) and the tests of df_fixed
ExecuteFixed(wb) ==
    /\ pc = "reexecuting"
    /\ LET e == execute_query(wb)
       IN  /\ exec_log' = Append(exec_log,
                  ExecEntry(fixed_sql[1], e))
           /\ IF e.raised
              THEN /\ pc' = "raised"
                   /\ UNCHANGED <<df_fixed, result>>
              ELSE /\ df_fixed' = Some(e.df)
                   /\ IF HasColumns(e.df)
                      THEN /\ result' = Some(FixedSuccessOutcome(fixed_sql, e.df))
                           /\ pc' = "returned"
                      ELSE /\ pc' = AfterFailure(max_retries, Repairs(llm_log))
                           /\ result' = IF pc' = "returned"
                                        THEN Some(AllFailedOutcome(sql_query, max_retries))
                                        ELSE result
    /\ UNCHANGED <<history, user_question, max_retries, sql_query, ai_response,
                   df, fixed_sql, fixed_response, llm_log, turns, session, last_op>>

\* the caller has the returned dict (or the exception); the frame is gone
Return ==
    /\ pc \in {"returned", "raised"}
    /\ pc' = "idle"
    /\ user_question' = <<>>
    /\ max_retries' = 0
    /\ sql_query' = None
    /\ ai_response' = <<>>
    /\ df' = None
    /\ fixed_sql' = None
    /\ fixed_response' = <<>>
    /\ df_fixed' = None
    /\ result' = None
    /\ llm_log' = <<>>
    /\ exec_log' = <<>>
    /\ UNCHANGED <<history, turns, session, last_op>>

\* the session calls clear_history, between two questions
ClearHistory ==
    /\ pc = "idle"
    /\ history' = clear_history(history)
    /\ last_op' = "clear_history"
    /\ UNCHANGED <<pc, user_question, max_retries, locals, result, llm_log,
                   exec_log, turns, session>>

\* a ConversationManager is constructed again in the same session, when the
\* warehouse may describe its tables differently: both session keys exist
Construct(view) ==
    /\ pc = "idle"
    /\ turns < MaxTurns
    /\ turns' = turns + 1
    /\ database_context' = init_database_context(database_context, view)
    /\ context_builds' = init_context_builds(database_context, context_builds)
    /\ last_op' = "__init__"
    /\ UNCHANGED <<history, pc, user_question, max_retries, locals, result,
                   llm_log, exec_log>>

\* the session calls add_to_history itself, between two questions
AddToHistory(role, content) ==
    /\ pc = "idle"
    /\ turns < MaxTurns
    /\ turns' = turns + 1
    /\ history' = add_to_history(history, role, content)
    /\ last_op' = "add_to_history"
    /\ UNCHANGED <<pc, user_question, max_retries, locals, result, llm_log,
                   exec_log, session>>

Next ==
    \/ \E q \in Questions, r \in 0..MaxRetries : AskQuestion(q, r)
    \/ \E o \in LLMOutcomes : GenerateSql(o)
    \/ \E wb \in WarehouseBehaviours : ExecuteQuery(wb)
    \/ \E o \in LLMOutcomes : FixFailedSql(o)
    \/ \E wb \in WarehouseBehaviours : ExecuteFixed(wb)
    \/ Return
    \/ ClearHistory
    \/ \E view \in SchemaViews : Construct(view)

\* the session where the history changes only through ask_question and
\* clear_history
Spec == Init /\ [][Next]_vars

Roles == {"user", "assistant"}
Contents == { <<"note">> }

NextApi ==
    \/ Next
    \/ \E role \in Roles, content \in Contents : AddToHistory(role, content)

\* the session that also calls add_to_history itself
SpecApi == Init /\ [][NextApi]_vars

(* ------------------------------ claims --------------------------------- *)
LowerSelect == <<"s","e","l","e","c","t">>

\* the text has the letters s-e-l-e-c-t in a row, in either case
MentionsSelect(text) ==
    \E i \in 1..(Len(text) - 5) :
        \A k \in 1..6 : text[i + k - 1] \in {KwSelect[k], LowerSelect[k]}

Finished == pc \in {"returned", "raised"}
DraftResponded == Len(llm_log) >= 1 /\ llm_log[1].ok
DraftIsSql == DraftResponded /\ MentionsSelect(llm_log[1].text)
FirstExecReturned == Len(exec_log) >= 1 /\ ~exec_log[1].raised
FirstExecZeroColumns == FirstExecReturned /\ exec_log[1].df.cols = 0
RepairResponded == Len(llm_log) >= 2 /\ llm_log[2].ok
RepairIsSql == RepairResponded /\ MentionsSelect(llm_log[2].text)
SecondExecReturned == Len(exec_log) >= 2 /\ ~exec_log[2].raised
FailureMessage == <<"Query failed and could not be automatically fixed">>

\* C1: with max_retries = 1, a first SQL response whose execution returns zero
\* columns is followed by exactly one repair LLM call; the call returns
\* success and retry_attempted when the repaired SQL returns columns, and
\* failure with retry_attempted when it returns none or the repair is no SQL.
C1_OneRepair ==
    (Finished /\ max_retries = 1 /\ DraftIsSql /\ FirstExecZeroColumns) =>
        /\ Repairs(llm_log) = 1
        /\ Len(llm_log) = 2
        /\ (pc = "returned" /\ RepairIsSql /\ SecondExecReturned
                /\ exec_log[2].df.cols >= 1)
             => (result[1].success /\ result[1].retry_attempted)
        /\ (pc = "returned" /\ RepairIsSql /\ SecondExecReturned
                /\ exec_log[2].df.cols = 0)
             => (~result[1].success /\ result[1].retry_attempted)
        /\ (pc = "returned" /\ RepairResponded /\ ~RepairIsSql)
             => (~result[1].success /\ result[1].retry_attempted)

C1_Witness ==
    /\ pc = "returned" /\ max_retries = 1 /\ DraftIsSql /\ FirstExecZeroColumns
    /\ RepairIsSql /\ SecondExecReturned /\ exec_log[2].df.cols >= 1
    /\ result[1].success /\ result[1].retry_attempted

\* C2: when the first execution returns zero columns and the repair response
\* is not SQL, the call returns failure, retry_attempted, and the repair
\* response's text as the message.
C2_RepairExplanationIsMessage ==
    (pc = "returned" /\ FirstExecZeroColumns /\ RepairResponded /\ ~RepairIsSql) =>
        /\ ~result[1].success
        /\ result[1].retry_attempted
        /\ result[1].message = llm_log[2].text

C4_ExplanationReturned ==
    (DraftResponded /\ ~DraftIsSql) =>
        /\ pc = "returned"
        /\ ~result[1].success
        /\ result[1].sql = None
        /\ result[1].message = llm_log[1].text
        /\ exec_log = <<>>
        /\ Len(llm_log) = 1

C4_Witness ==
    /\ pc = "returned" /\ DraftResponded /\ ~DraftIsSql
    /\ llm_log[1].text # Strip(llm_log[1].text)
    /\ result[1].message = llm_log[1].text

\* C5: a first execution that returns at least one column ends the call with
\* success, retry_attempted false and that result as data, without a repair
\* call; the message has the row count when there are rows and says that
\* there are no results when there are none.
C5_FirstAttemptSuccess ==
    (FirstExecReturned /\ exec_log[1].df.cols >= 1) =>
        /\ pc = "returned"
        /\ result[1].success
        /\ ~result[1].retry_attempted
        /\ result[1].data = Some(exec_log[1].df)
        /\ Len(llm_log) = 1
        /\ Len(exec_log) = 1
        /\ exec_log[1].df.rows >= 1 =>
              Contains(result[1].message, Decimal(exec_log[1].df.rows))
        /\ exec_log[1].df.rows = 0 =>
              result[1].message =
                  <<"Query executed successfully but returned no results">>

C5_Witness ==
    /\ pc = "returned" /\ FirstExecReturned
    /\ exec_log[1].df.cols >= 1 /\ exec_log[1].df.rows = MaxRows
    /\ result[1].success /\ ~result[1].retry_attempted

\* C6: with max_retries = 0, a first execution that returns zero columns ends
\* the call without a repair call or a second execution: failure, the
\* original SQL, the fixed failure message.
C6_NoBudgetNoRepair ==
    (max_retries = 0 /\ FirstExecZeroColumns) =>
        /\ pc = "returned"
        /\ Len(llm_log) = 1
        /\ Len(exec_log) = 1
        /\ ~result[1].success
        /\ result[1].sql = Some(exec_log[1].sql)
        /\ result[1].sql = sql_query
        /\ result[1].message = FailureMessage

C6_Witness ==
    /\ pc = "returned" /\ max_retries = 0 /\ FirstExecZeroColumns
    /\ ~result[1].success /\ result[1].message = FailureMessage

\* C7: when the drafting call returns a response, SQL or not, the history
\* grows by exactly the user question and then the raw assistant response,
\* and the earlier messages stay.
C7_DraftAppendsTwo ==
    [][(pc = "drafting" /\ Len(llm_log') = 1 /\ llm_log'[1].ok) =>
          history' = history \o << [role |-> "user", content |-> user_question],
                                  [role |-> "assistant", content |-> llm_log'[1].text] >>
      ]_vars

C7_Witness ==
    /\ pc = "returned" /\ DraftResponded /\ ~DraftIsSql
    /\ Len(history) = 4
    /\ history[4] = [role |-> "assistant", content |-> llm_log[1].text]
    /\ MentionsSelect(history[2].content)

\* the repair request is one user message that carries the failed SQL, the
\* question and the hints, and nothing of the history
RepairRequestIsAlone ==
    \A i \in DOMAIN llm_log :
        llm_log[i].kind = "repair" =>
            /\ Len(llm_log[i].messages) = 1
            /\ llm_log[i].messages[1].role = "user"
            /\ Contains(llm_log[i].messages[1].content, exec_log[1].sql)
            /\ Contains(llm_log[i].messages[1].content, user_question)
            /\ Contains(llm_log[i].messages[1].content,
                        <<"- DATE_TRUNC() uses different syntax than PostgreSQL\n",
                          "- Some aggregate functions have different parameter orders\n",
                          "- String functions may have different names\n\n">>)

\* C8: the repair request is a single user message without the history, and
\* the history does not change in the repairing and re-executing steps.
C8_RepairIndependent ==
    /\ []RepairRequestIsAlone
    /\ [][(pc \in {"repairing", "reexecuting"}) => (history' = history)]_vars

C8_Witness ==
    /\ pc = "returned" /\ Len(exec_log) = 2 /\ Repairs(llm_log) = 1
    /\ Len(history) = 4
    /\ Len(llm_log[2].messages) = 1

\* C9: whatever the LLM and the warehouse do, ask_question raises nothing and
\* ends by returning a record with success, sql, data, message and
\* retry_attempted.
C9_NothingEscapes ==
    /\ pc # "raised"
    /\ pc = "returned" =>
          /\ result # None
          /\ DOMAIN result[1] = {"success", "sql", "data", "message", "retry_attempted"}

\* C10: a failed drafting call is caught and returned as a non-SQL outcome
\* whose message holds the failure text, with no retry, no repair and no
\* execution; a failed repair call is not retried either and no second
\* execution follows.
C10_LlmFailureNotRetried ==
    /\ (Len(llm_log) >= 1 /\ ~llm_log[1].ok) =>
          /\ pc = "returned"
          /\ Len(llm_log) = 1
          /\ exec_log = <<>>
          /\ ~result[1].success
          /\ result[1].sql = None
          /\ Contains(result[1].message, llm_log[1].text)
          /\ ~result[1].retry_attempted
    /\ (Len(llm_log) >= 2 /\ ~llm_log[2].ok) =>
          /\ pc = "returned"
          /\ Len(llm_log) = 2
          /\ Len(exec_log) = 1

C10_Witness ==
    /\ pc = "returned" /\ Len(llm_log) = 1 /\ ~llm_log[1].ok
    /\ history # <<>>
    /\ ~result[1].success /\ result[1].sql = None

\* C11: every execute_query call opens at most one connection, and on every
\* exit path each connection and cursor it opened is closed when it ends.
C11_ConnectionsReleased ==
    \A i \in DOMAIN exec_log :
        /\ exec_log[i].opened <= 1
        /\ ~exec_log[i].conn_open
        /\ ~exec_log[i].cursor_open

\* C12: on any failure inside execute_query (connect, cursor, execute, fetch,
\* close) the call does not raise and returns zero columns and zero rows.
C12_FailureGivesEmptyResult ==
    \A i \in DOMAIN exec_log :
        /\ ~exec_log[i].raised
        /\ exec_log[i].failed => exec_log[i].df = [cols |-> 0, rows |-> 0]

\* C13: a zero-column result always signals a failure: a statement that ran
\* without error gives at least one column, and the repair path is entered
\* only after a statement that failed.
C13_ZeroColumnsMeansFailure ==
    /\ \A i \in DOMAIN exec_log :
          (~exec_log[i].raised /\ ~exec_log[i].failed)
              => exec_log[i].df.cols >= 1
    /\ (pc \in {"repairing", "reexecuting"} \/ Repairs(llm_log) >= 1)
          => exec_log[1].failed

\* after clear_history, get_conversation_history gives the empty sequence
ClearedIsEmpty ==
    last_op = "clear_history" => get_conversation_history(history) = <<>>

\* C14: after any calls of ask_question, add_to_history and clear_history, a
\* clear_history leaves an empty history, and a second clear_history leaves
\* the state as the first one did.
C14_ClearIdempotent ==
    /\ []ClearedIsEmpty
    /\ [][(last_op = "clear_history" /\ last_op' = "clear_history") => (vars' = vars)]_vars

C14_Witness ==
    /\ last_op = "clear_history"
    /\ turns = MaxTurns
    /\ get_conversation_history(history) = <<>>

\* every system prompt sent so far carries the session's schema description
PromptsEmbedContext ==
    \A i \in DOMAIN llm_log : Contains(llm_log[i].system, database_context[1])

\* C15: the schema description is computed at most once per session and never
\* changes afterwards, whatever ask_question, fix_failed_sql, clear_history
\* or a further construction do; every system prompt embeds that value.
C15_ContextComputedOnce ==
    /\ [](context_builds <= 1 /\ database_context # None /\ PromptsEmbedContext)
    /\ [][database_context' = database_context]_vars

C15_Witness ==
    /\ last_op = "__init__"
    /\ turns = MaxTurns
    /\ history # <<>>
    /\ context_builds = 1
    /\ database_context = Some(get_database_context(SchemaAll))

Alternates(h) ==
    \A i \in DOMAIN h : h[i].role = IF i % 2 = 1 THEN "user" ELSE "assistant"

\* C16: when only ask_question and clear_history change the history, it has
\* even length and alternates user, assistant from a user message on; the
\* messages of a drafting request alternate too and end with the question.
C16_HistoryAlternates ==
    /\ Len(history) % 2 = 0
    /\ Alternates(history)
    /\ \A i \in DOMAIN llm_log :
          llm_log[i].kind = "draft" =>
              /\ Alternates(llm_log[i].messages)
              /\ Len(llm_log[i].messages) % 2 = 1
              /\ llm_log[i].messages[Len(llm_log[i].messages)]
                    = [role |-> "user", content |-> user_question]

C16_Witness ==
    /\ pc = "executing"
    /\ Len(history) = 4
    /\ Len(llm_log[1].messages) = 3
    /\ llm_log[1].messages[3].content = user_question

\* C17: when the drafting LLM call raises, the history is exactly what it was
\* before ask_question was called.
C17_FailedDraftKeepsHistory ==
    [][(pc = "drafting" /\ Len(llm_log') = 1 /\ ~llm_log'[1].ok) => (history' = history)]_vars

C17_Witness ==
    /\ pc = "returned" /\ Len(llm_log) = 1 /\ ~llm_log[1].ok
    /\ Len(history) = 2
    /\ llm_log[1].messages = Append(history, [role |-> "user", content |-> user_question])

====
